---- MODULE Spec2Model ----
(***************************************************************************)
(* json-to-pdf: the layout / pagination engine of src/src/generatePDF.ts.  *)
(*                                                                         *)
(* Lengths are in hundredths of a point, so that the a4 page size of jsPDF *)
(* (595.28 x 841.89 pt) is an integer: Pt(100) is the source's 100.        *)
(*                                                                         *)
(* A JSON value is a record [t, n, s, items]:                              *)
(*   t      the JavaScript type: "string" "number" "boolean" "null"        *)
(*          "undefined" "array" "object", or "ref" for a reference to an   *)
(*          enclosing container (a cyclic structure);                      *)
(*   n      the number (lengths in hundredths of a point); for a "ref",    *)
(*          how many containers up the reference points;                   *)
(*   s      for a string, the lines the canvas wraps it to                 *)
(*          (doc.splitTextToSize); <<>> is the empty string;               *)
(*   items  for an array or object, the entries [k, v] in insertion order. *)
(***************************************************************************)
EXTENDS Integers, Sequences, FiniteSets, TLC

VARIABLES
    input,      \* generatePDF's first argument: [isUrl, data]
    options,    \* generatePDF's second argument, defaults applied
    pc,         \* position of the async function generatePDF
    jsonData,   \* the local jsonData
    doc,        \* the jsPDF document: pages, current page, font size, content log
    y,          \* the cursor, local y
    k,          \* index of the for..in loop over jsonData's keys
    r,          \* index of the for..of loop over an image table's rows
    fetches,    \* history of the image fetches: [key, row, ok]
    total,      \* totalPages of the numbering pass
    pg,         \* loop index i of the numbering pass
    saved,      \* the file names doc.save wrote
    outcome,    \* how the promise settled: [kind, value]
    geom,       \* inputs and results of the geometry primitives (SpecGeom)
    norm        \* a value and its normalizations (SpecClean)

vars == <<input, options, pc, jsonData, doc, y, k, r, fetches, total, pg, saved,
          outcome, geom, norm>>

-----------------------------------------------------------------------------
(* Bounds of the model *)

MaxFields == 2
MaxLines == 16
MaxRows == 8
MaxImgRows == 2
StackLimit == 8
MaxGeomH == 1000

Pt(n) == n * 100

-----------------------------------------------------------------------------
(* JSON values *)

Val(t, n, s, items) == [t |-> t, n |-> n, s |-> s, items |-> items]

Undefined == Val("undefined", 0, <<>>, <<>>)
Null == Val("null", 0, <<>>, <<>>)
Num(n) == Val("number", n, <<>>, <<>>)
Bool(b) == Val("boolean", IF b THEN 1 ELSE 0, <<>>, <<>>)
Str(lines) == Val("string", 0, lines, <<>>)
Obj(entries) == Val("object", 0, <<>>, entries)
Ref(up) == Val("ref", up, <<>>, <<>>)

IdxKey(i) == IF i <= 4 THEN <<"0", "1", "2", "3">>[i] ELSE "n"

Arr(elems) ==
    Val("array", 0, <<>>, [i \in DOMAIN elems |-> [k |-> IdxKey(i), v |-> elems[i]]])

E(key, v) == [k |-> key, v |-> v]

\* typeof v === "object"
TypeofObject(v) == v.t \in {"object", "array", "null"}

\* Array.isArray(v)
IsArray(v) == v.t = "array"

\* Object.keys(v) of an array or object
Keys(v) == [i \in DOMAIN v.items |-> v.items[i].k]

Includes(seq, x) == \E i \in DOMAIN seq : seq[i] = x

\* v[key]: the property of an array or object, undefined when it has none
Get(v, key) ==
    IF \E i \in DOMAIN v.items : v.items[i].k = key
    THEN v.items[CHOOSE i \in DOMAIN v.items : v.items[i].k = key].v
    ELSE Undefined

\* JavaScript truthiness, as used by `a || b` and `if (a)`
Truthy(v) ==
    CASE v.t = "string" -> v.s # <<>>
      [] v.t = "number" -> v.n # 0
      [] v.t = "boolean" -> v.n = 1
      [] v.t \in {"null", "undefined"} -> FALSE
      [] OTHER -> TRUE

-----------------------------------------------------------------------------
(* cleanJSON *)

Thrown(name) == Val("throw", 0, <<name>>, <<>>)

Defined(e) == e.v.t # "undefined"

\* A clone through JSON text, JSON.parse(JSON.stringify(data)): an object loses
\* the entries whose value is undefined
cleanJSONThroughText(data, anc, depth) ==
    IF data.t = "object" THEN [data EXCEPT !.items = SelectSeq(@, Defined)] ELSE data

\* cleanJSON(data) called at recursion depth `depth` with the enclosing
\* containers anc (outermost first).  A "ref" is the enclosing container
\* itself, so the call on it is a call on that container.  The code keeps no
\* record of visited containers; the only thing that stops the recursion on
\* a cycle is the engine's call stack, which throws RangeError.
RECURSIVE cleanJSON(_, _, _)
cleanJSON(data, anc, depth) ==
    IF depth > StackLimit THEN Thrown("RangeError")
    ELSE IF data.t = "ref"
    THEN cleanJSON(anc[Len(anc) - data.n + 1],
                   SubSeq(anc, 1, Len(anc) - data.n), depth)
    ELSE IF data.t \in {"array", "object"}
    THEN LET kids == [i \in DOMAIN data.items |->
                        cleanJSON(data.items[i].v, Append(anc, data), depth + 1)]
             bad == {i \in DOMAIN kids : kids[i].t = "throw"}
         IN  IF bad # {}
             THEN kids[CHOOSE i \in bad : \A j \in bad : i <= j]
             ELSE [data EXCEPT !.items =
                      [i \in DOMAIN data.items |-> [k |-> data.items[i].k, v |-> kids[i]]]]
    ELSE data

\* Whether a value holds a reference to one of its enclosing containers
RECURSIVE HasCycle(_)
HasCycle(v) ==
    \/ v.t = "ref"
    \/ \E i \in DOMAIN v.items : HasCycle(v.items[i].v)

-----------------------------------------------------------------------------
(* The canvas (jsPDF) and the furniture *)

\* doc.internal.pageSize of new jsPDF({unit: "pt", format, orientation})
PageSize(format, orientation) ==
    LET portrait ==
            CASE format = "a4" -> [width |-> 59528, height |-> 84189]
              [] format = "letter" -> [width |-> Pt(612), height |-> Pt(792)]
              [] format = "legal" -> [width |-> Pt(612), height |-> Pt(1008)]
    IN  IF orientation = "portrait" THEN portrait
        ELSE [width |-> portrait.height, height |-> portrait.width]

BlankPage == [header |-> <<>>, footer |-> <<>>, stamps |-> <<>>]

\* new jsPDF(...): one blank page, which is the current page; jsPDF's
\* initial font size is 16
NewDoc(format, orientation) ==
    [pages |-> <<BlankPage>>, cur |-> 1, fontSize |-> Pt(16),
     pageSize |-> PageSize(format, orientation), log |-> <<>>]

\* doc.addPage(): appends a page and makes it the current page
addPage(d) == [d EXCEPT !.pages = Append(@, BlankPage), !.cur = Len(d.pages) + 1]

\* doc.setFontSize(size)
setFontSize(d, size) == [d EXCEPT !.fontSize = size]

\* header?.text || "Comprehensive Business Report - 2025"
HeaderText(header) ==
    IF Truthy(Get(header, "text")) THEN Get(header, "text").s
    ELSE <<"Comprehensive Business Report - 2025">>

\* addHeader: paints the banner on the current page and returns 90
addHeader(d, header, fontSize) ==
    [doc |-> [d EXCEPT !.pages[d.cur].header = Append(@, HeaderText(header)),
                       !.fontSize = fontSize],
     ret |-> Pt(90)]

\* addFooter: paints the band on the current page unless footer is falsy
addFooter(d, footer) ==
    IF ~Truthy(footer) THEN d
    ELSE [d EXCEPT !.pages[d.cur].footer =
                       Append(@, IF Truthy(Get(footer, "text")) THEN Get(footer, "text").s
                                 ELSE <<"Generated by JSON-to-PDF Library">>),
                   !.fontSize = Pt(10)]

willFitOnPage(yy, tableHeight, pageHeight) == yy + tableHeight < pageHeight - Pt(100)

\* A page break as the callers spell it out: addPage, addHeader, addFooter
BreakPage(d, data, fontSize) ==
    addFooter(addHeader(addPage(d), Get(data, "header"), fontSize).doc, Get(data, "footer"))

\* ensureSpacing resetting the cursor without adding a page
ensureSpacingSamePage(d, yy, pageHeight, spaceNeeded, fontSize, data) ==
    IF yy + spaceNeeded > pageHeight - Pt(100)
    THEN [doc |-> d, y |-> Pt(100)]
    ELSE [doc |-> d, y |-> yy + spaceNeeded]

\* ensureSpacing without its page break
ensureSpacingNoBreak(d, yy, pageHeight, spaceNeeded, fontSize, data) ==
    [doc |-> d, y |-> yy + spaceNeeded]

ensureSpacing(d, yy, pageHeight, spaceNeeded, fontSize, data) ==
    IF yy + spaceNeeded > pageHeight - Pt(100)
    THEN [doc |-> BreakPage(d, data, fontSize), y |-> Pt(100)]
    ELSE [doc |-> d, y |-> yy + spaceNeeded]

\* A content write on the current page, appended to the document's log
Write(d, kind, key, row, yy, h, text) ==
    [d EXCEPT !.log = Append(@, [kind |-> kind, key |-> key, row |-> row,
                                 page |-> d.cur, y |-> yy, h |-> h, text |-> text,
                                 fontSize |-> d.fontSize,
                                 endPage |-> d.cur, endY |-> yy + h])]

-----------------------------------------------------------------------------
(* The renderers *)

\* The key as it is, without the upper-casing
toUpperCaseAsIs(key) == key

\* key.toUpperCase(), for the keys the documents below use
toUpperCase(key) ==
    CASE key = "Summary" -> "SUMMARY"
      [] key = "details" -> "DETAILS"
      [] key = "extra" -> "EXTRA"
      [] OTHER -> key

\* doc.splitTextToSize(value, pageWidth - 100): the wrapped lines; the empty
\* string is one empty line
splitTextToSize(value) == IF value.s = <<>> THEN <<"">> ELSE value.s

\* splitText.forEach(line => { y = ensureSpacing(.., 20, ..); doc.text(line, 50, y); y += 20 })
\* from line i on; st is [doc, y].  (The test of next.y only makes the
\* evaluation of a line's state precede the next line's.)
RECURSIVE DrawLines(_, _, _, _, _, _, _)
DrawLines(st, field, lines, i, pageHeight, fontSize, data) ==
    IF i > Len(lines) THEN st
    ELSE LET e == ensureSpacing(st.doc, st.y, pageHeight, Pt(20), fontSize, data)
             next == [doc |-> Write(e.doc, "line", field, i, e.y, 0, <<lines[i]>>),
                      y |-> e.y + Pt(20)]
         IN  IF next.y >= 0
             THEN DrawLines(next, field, lines, i + 1, pageHeight, fontSize, data)
             ELSE st

\* The body of `if (typeof value === "string") { ... }`
RenderText(d, yy, key, value, pageHeight, fontSize, data) ==
    LET e == ensureSpacing(d, yy, pageHeight, Pt(30), fontSize, data)
        d1 == Write(setFontSize(e.doc, fontSize), "label", key, 0, e.y, 0,
                    <<toUpperCase(key), ":">>)
        st == DrawLines([doc |-> d1, y |-> e.y + Pt(20)], key, splitTextToSize(value), 1,
                        pageHeight, fontSize, data)
    IN  [doc |-> st.doc, y |-> st.y + Pt(20)]

\* a || b on numbers
OrElse(v, dflt) == IF Truthy(v) THEN v.n ELSE dflt

\* imageToBase64 without its catch: a data URL whatever the fetch did
imageToBase64NoCatch(ok) == Str(<<"data:image/jpeg;base64,">>)

\* imageToBase64: the data URL when the fetch succeeded, null when it threw
imageToBase64(ok) == IF ok THEN Str(<<"data:image/jpeg;base64,">>) ELSE Null

\* The body of `if (imgData) { ... }` for one row
RenderImage(d, yy, key, i, row, pageHeight, fontSize, data) ==
    LET e == ensureSpacing(d, yy, pageHeight, OrElse(Get(row, "height"), Pt(120)),
                           fontSize, data)
        h == OrElse(Get(row, "height"), Pt(100))
        over == e.y + h > pageHeight - Pt(100)
        d1 == IF over THEN BreakPage(e.doc, data, fontSize) ELSE e.doc
        y1 == IF over THEN Pt(100) ELSE e.y
    IN  [doc |-> Write(d1, "image", key, i, y1, h, <<>>), y |-> y1 + h + Pt(20)]

\* The didDrawPage hook handed to autoTable
didDrawPage(d, data, fontSize) ==
    addFooter(addHeader(d, Get(data, "header"), fontSize).doc, Get(data, "footer"))

\* jspdf-autotable's defaults: page margin 40, font size 10 with line height
\* 1.15, cell padding 5; a row is as high as its highest cell
AutoTableMargin == Pt(40)

CellLines(cell) == IF cell.t = "string" /\ Len(cell.s) > 1 THEN Len(cell.s) ELSE 1

RowHeight(row, headers) ==
    LET hs == {CellLines(Get(row, headers[j])) * 1150 + Pt(10) : j \in DOMAIN headers}
               \cup {1150 + Pt(10)}
    IN  CHOOSE h \in hs : \A g \in hs : g <= h

\* autoTable's row loop from row i on: a row that does not fit above the bottom
\* margin ends the page (the hook runs), a page is added, the head row is
\* printed again and the row follows it.  st is [doc, y].
RECURSIVE AutoTableRows(_, _, _, _, _, _)
AutoTableRows(st, rows, headers, i, data, fontSize) ==
    IF i > Len(rows) THEN st
    ELSE LET h == RowHeight(rows[i].v, headers)
             brk == st.y + h > st.doc.pageSize.height - AutoTableMargin
             d1 == IF brk THEN addPage(didDrawPage(st.doc, data, fontSize)) ELSE st.doc
             y1 == IF brk THEN AutoTableMargin + 1150 + Pt(10) ELSE st.y
             next == [doc |-> d1, y |-> y1 + h]
         IN  IF next.y >= 0
             THEN AutoTableRows(next, rows, headers, i + 1, data, fontSize)
             ELSE st

\* autoTable(doc, {startY, head: [headers], body, didDrawPage}): the head row at
\* startY, then the body rows; the hook runs on the last page too; the font
\* size in effect before the call is restored.  Returns the document and
\* lastAutoTable.finalY.
autoTable(d, startY, headers, rows, data, fontSize) ==
    LET st == AutoTableRows([doc |-> d, y |-> startY + 1150 + Pt(10)], rows, headers, 1,
                            data, fontSize)
    IN  [doc |-> setFontSize(didDrawPage(st.doc, data, fontSize), d.fontSize),
         finalY |-> st.y]

\* The table branch without the pre-flight check
RenderTableNoPreflight(d, yy, key, value, headers, pageHeight, fontSize, data) ==
    LET t == autoTable(d, yy, headers, value.items, data, fontSize)
        entry == [kind |-> "table", key |-> key, row |-> 0, page |-> d.cur,
                  y |-> yy, h |-> Len(value.items) * Pt(25) + Pt(50), text |-> headers,
                  fontSize |-> d.fontSize,
                  endPage |-> t.doc.cur, endY |-> t.finalY]
    IN  [doc |-> [t.doc EXCEPT !.log = Append(@, entry)], y |-> t.finalY + Pt(30)]

\* The table branch (lines 119-139) for a field whose first element has the
\* keys `headers`
RenderTable(d, yy, key, value, headers, pageHeight, fontSize, data) ==
    LET estimatedTableHeight == Len(value.items) * Pt(25) + Pt(50)
        fits == willFitOnPage(yy, estimatedTableHeight, pageHeight)
        d1 == IF fits THEN d ELSE BreakPage(d, data, fontSize)
        startY == IF fits THEN yy ELSE Pt(100)
        t == autoTable(d1, startY, headers, value.items, data, fontSize)
        entry == [kind |-> "table", key |-> key, row |-> 0, page |-> d1.cur,
                  y |-> startY, h |-> estimatedTableHeight, text |-> headers,
                  fontSize |-> d1.fontSize,
                  endPage |-> t.doc.cur, endY |-> t.finalY]
    IN  [doc |-> [t.doc EXCEPT !.log = Append(@, entry)], y |-> t.finalY + Pt(30)]

\* The numbering loop with the total taken from the length of jsPDF's pages
\* array, which holds one entry more than there are pages
stampPageOfArrayLength(d, i, totalPages) ==
    [d EXCEPT !.cur = i, !.fontSize = Pt(10),
              !.pages[i].stamps = Append(@, [i |-> i, of |-> totalPages + 1])]

\* One round of the numbering loop: doc.setPage(i); doc.setFontSize(10);
\* doc.text(`Page ${i} of ${totalPages}`, pageWidth - 80, pageHeight - 30)
stampPage(d, i, totalPages) ==
    [d EXCEPT !.cur = i, !.fontSize = Pt(10),
              !.pages[i].stamps = Append(@, [i |-> i, of |-> totalPages])]

-----------------------------------------------------------------------------
(* The inputs *)

Repeat(x, n) == [i \in 1..n |-> x]

TextValues == {Str(<<"short text">>), Str(Repeat("w", MaxLines))}

\* n rows of two columns, the first cell wrapping to `lines` lines
Table(n, lines) ==
    Arr([i \in 1..n |-> Obj(<<E("name", Str(Repeat("c", lines))), E("qty", Num(i))>>)])

\* A one-row table, and a table of tall rows that no page holds
TableValues == {Table(1, 1), Table(MaxRows, 10)}

Url == Str(<<"http://host/img.jpg">>)

\* Rows with the default height, a given height, a height no page holds, and
\* without a usable url
ImageRows ==
    {Obj(<<E("url", Url)>>),
     Obj(<<E("url", Url), E("height", Num(Pt(300)))>>),
     Obj(<<E("url", Url), E("height", Num(Pt(900)))>>),
     Obj(<<E("url", Str(<<>>)), E("height", Num(Pt(300)))>>)}

ImageValues == {Arr(Repeat(row, MaxImgRows)) : row \in ImageRows}

LayoutValues == TextValues \cup TableValues \cup ImageValues

SkipValues ==
    {Arr(<<>>), Num(7), Bool(TRUE), Null, Obj(<<E("a", Num(1))>>),
     Arr(<<Num(1), Num(2)>>)}

\* Arrays whose first element is null or an array
OddArrays == {Arr(<<Null>>), Arr(<<Arr(<<Num(1), Num(2)>>), Arr(<<Num(3), Num(4)>>)>>)}

\* An object that holds itself
CyclicValues == {Obj(<<E("self", Ref(1))>>)}

OtherValues == SkipValues \cup OddArrays \cup CyclicValues

FieldKey(i) == IF i <= 3 THEN <<"Summary", "details", "extra">>[i] ELSE "more"

HeaderValues == {Undefined, Obj(<<E("text", Str(<<"T">>))>>)}
FooterValues == {Undefined, Obj(<<E("text", Str(<<"F">>))>>)}

\* The document: header and footer when declared, then the fields
Document(header, footer, values) ==
    Obj((IF header = Undefined THEN <<>> ELSE <<E("header", header)>>)
        \o (IF footer = Undefined THEN <<>> ELSE <<E("footer", footer)>>)
        \o [i \in DOMAIN values |-> E(FieldKey(i), values[i])])

\* Up to MaxFields fields that draw, at most one of them an image table; and
\* one field of another shape alone, before or after a text field
FieldSeqs ==
    {vs \in UNION {[1..n -> LayoutValues] : n \in 0..MaxFields} :
        Cardinality({i \in DOMAIN vs : vs[i] \in ImageValues}) <= 1}
        \cup {<<v>> : v \in OtherValues}
        \cup {<<t, v>> : t \in TextValues, v \in OtherValues}
        \cup {<<v, t>> : t \in TextValues, v \in OtherValues}

\* The documents of at most one field, with and without header and footer
SmallDocuments ==
    {Document(h, f, vs) : h \in HeaderValues, f \in FooterValues,
                          vs \in {<<>>} \cup {<<v>> : v \in LayoutValues \cup OtherValues}}

\* The documents handed over in memory: the small ones, and those with a
\* header and any of the field sequences
Documents ==
    SmallDocuments
        \cup {Document(Obj(<<E("text", Str(<<"T">>))>>), f, vs) :
                f \in FooterValues, vs \in FieldSeqs}

\* A URL input serves one of the small documents
Inputs ==
    [isUrl : {FALSE}, data : Documents] \cup [isUrl : {TRUE}, data : SmallDocuments]

OptionSets ==
    [format : {"a4", "letter", "legal"}, orientation : {"portrait", "landscape"},
     fontSize : {Pt(14)}, pageNumbering : BOOLEAN]

outputFileName == "report.pdf"
outputPath == "/cwd/report.pdf"

NoDoc ==
    [pages |-> <<>>, cur |-> 0, fontSize |-> 0, pageSize |-> [width |-> 0, height |-> 0],
     log |-> <<>>]

NoGeom == [y |-> 0, h |-> 0, pageHeight |-> 0, step |-> "off", fit |-> FALSE, newY |-> 0,
           pagesAdded |-> 0]

NoNorm == [v |-> Undefined, once |-> Undefined, twice |-> Undefined, step |-> "off"]

Pending == [kind |-> "pending", value |-> ""]

Init ==
    /\ input \in Inputs
    /\ options \in OptionSets
    /\ pc = "start"
    /\ jsonData = Undefined
    /\ doc = NoDoc
    /\ y = 0
    /\ k = 0
    /\ r = 0
    /\ fetches = <<>>
    /\ total = 0
    /\ pg = 0
    /\ saved = <<>>
    /\ outcome = Pending
    /\ geom = NoGeom
    /\ norm = NoNorm

-----------------------------------------------------------------------------
(* generatePDF *)

pageHeight == doc.pageSize.height

\* A catch that swallows the error and returns the path
RejectAsPath(name) ==
    /\ pc' = "resolved"
    /\ outcome' = [kind |-> "resolved", value |-> outputPath]

\* catch (error) { throw error }: the promise rejects
Reject(name) ==
    /\ pc' = "rejected"
    /\ outcome' = [kind |-> "rejected", value |-> name]

\* typeof input === "string" ? await axios.get(input) : input
Start ==
    /\ pc = "start"
    /\ IF input.isUrl
       THEN pc' = "fetch" /\ UNCHANGED jsonData
       ELSE pc' = "clean" /\ jsonData' = input.data
    /\ UNCHANGED <<input, options, doc, y, k, r, fetches, total, pg, saved, outcome, geom, norm>>

\* axios.get(input) resolves: jsonData = response.data
FetchOk ==
    /\ pc = "fetch"
    /\ jsonData' = input.data
    /\ pc' = "clean"
    /\ UNCHANGED <<input, options, doc, y, k, r, fetches, total, pg, saved, outcome, geom, norm>>

\* axios.get(input) rejects
FetchFail ==
    /\ pc = "fetch"
    /\ Reject("FetchError")
    /\ UNCHANGED <<input, options, jsonData, doc, y, k, r, fetches, total, pg, saved, geom, norm>>

\* jsonData = cleanJSON(jsonData)
Normalize ==
    /\ pc = "clean"
    /\ LET res == cleanJSON(jsonData, <<>>, 1)
       IN  IF res.t = "throw"
           THEN Reject(res.s[1]) /\ UNCHANGED jsonData
           ELSE jsonData' = res /\ pc' = "create" /\ UNCHANGED outcome
    /\ UNCHANGED <<input, options, doc, y, k, r, fetches, total, pg, saved, geom, norm>>

\* new jsPDF(...); y = addHeader(...); doc.setFontSize(fontSize); the loop starts
Create ==
    /\ pc = "create"
    /\ LET a == addHeader(NewDoc(options.format, options.orientation),
                          Get(jsonData, "header"), options.fontSize)
       IN  /\ doc' = setFontSize(a.doc, options.fontSize)
           /\ y' = a.ret
    /\ k' = 1
    /\ pc' = "fields"
    /\ UNCHANGED <<input, options, jsonData, r, fetches, total, pg, saved, outcome, geom, norm>>

AtField == pc = "fields" /\ k <= Len(jsonData.items)
key == jsonData.items[k].k
value == jsonData.items[k].v
Reserved == key \in {"header", "footer"}
\* Array.isArray(value) && typeof value[0] === "object"
ArrayOfObject == IsArray(value) /\ TypeofObject(Get(value, "0"))

\* if (["header", "footer"].includes(key)) continue
SkipReserved ==
    /\ AtField
    /\ Reserved
    /\ k' = k + 1
    /\ UNCHANGED <<input, options, pc, jsonData, doc, y, r, fetches, total, pg, saved,
                   outcome, geom, norm>>

\* if (typeof value === "string") { ... continue }
TextField ==
    /\ AtField
    /\ ~Reserved
    /\ value.t = "string"
    /\ LET st == RenderText(doc, y, key, value, pageHeight, options.fontSize, jsonData)
       IN  doc' = st.doc /\ y' = st.y
    /\ k' = k + 1
    /\ UNCHANGED <<input, options, pc, jsonData, r, fetches, total, pg, saved, outcome, geom, norm>>

\* Object.keys(value[0]) with value[0] === null throws a TypeError
KeysOfNull ==
    /\ AtField
    /\ ~Reserved
    /\ value.t # "string"
    /\ ArrayOfObject
    /\ Get(value, "0").t = "null"
    /\ Reject("TypeError")
    /\ UNCHANGED <<input, options, jsonData, doc, y, k, r, fetches, total, pg, saved, geom, norm>>

\* if (headers.includes("url")) { for (const row of value) ...
ImageTableField ==
    /\ AtField
    /\ ~Reserved
    /\ value.t # "string"
    /\ ArrayOfObject
    /\ Get(value, "0").t # "null"
    /\ Includes(Keys(Get(value, "0")), "url")
    /\ r' = 1
    /\ pc' = "rows"
    /\ UNCHANGED <<input, options, jsonData, doc, y, k, fetches, total, pg, saved, outcome,
                   geom, norm>>

\* The table branch; row[header] of a null row throws a TypeError
TableField ==
    /\ AtField
    /\ ~Reserved
    /\ value.t # "string"
    /\ ArrayOfObject
    /\ Get(value, "0").t # "null"
    /\ ~Includes(Keys(Get(value, "0")), "url")
    /\ IF \E i \in DOMAIN value.items : value.items[i].v.t \in {"null", "undefined"}
       THEN Reject("TypeError") /\ UNCHANGED <<doc, y, k>>
       ELSE /\ LET st == RenderTable(doc, y, key, value, Keys(Get(value, "0")), pageHeight,
                                     options.fontSize, jsonData)
               IN  doc' = st.doc /\ y' = st.y
            /\ k' = k + 1
            /\ UNCHANGED <<pc, outcome>>
    /\ UNCHANGED <<input, options, jsonData, r, fetches, total, pg, saved, geom, norm>>

\* Neither branch applies: the loop body ends without drawing
SkipField ==
    /\ AtField
    /\ ~Reserved
    /\ value.t # "string"
    /\ ~ArrayOfObject
    /\ k' = k + 1
    /\ UNCHANGED <<input, options, pc, jsonData, doc, y, r, fetches, total, pg, saved,
                   outcome, geom, norm>>

AtRow == pc = "rows" /\ r <= Len(value.items)
row == value.items[r].v

\* if (row.url) is false: nothing happens for the row; row.url of a null row throws
RowWithoutUrl ==
    /\ AtRow
    /\ IF row.t \in {"null", "undefined"}
       THEN Reject("TypeError") /\ UNCHANGED r
       ELSE /\ ~Truthy(Get(row, "url"))
            /\ r' = r + 1
            /\ UNCHANGED <<pc, outcome>>
    /\ UNCHANGED <<input, options, jsonData, doc, y, k, fetches, total, pg, saved, geom, norm>>

\* await imageToBase64(row.url): the fetch is outstanding
RowFetch ==
    /\ AtRow
    /\ row.t \notin {"null", "undefined"}
    /\ Truthy(Get(row, "url"))
    /\ pc' = "imgfetch"
    /\ UNCHANGED <<input, options, jsonData, doc, y, k, r, fetches, total, pg, saved,
                   outcome, geom, norm>>

\* imageToBase64 settles (it catches a failed fetch and returns null);
\* if (imgData) the image is placed
ImageFetched ==
    /\ pc = "imgfetch"
    /\ \E ok \in BOOLEAN :
          /\ fetches' = Append(fetches, [key |-> key, row |-> r, ok |-> ok])
          /\ IF Truthy(imageToBase64(ok))
             THEN LET st == RenderImage(doc, y, key, r, row, pageHeight, options.fontSize,
                                        jsonData)
                  IN  doc' = st.doc /\ y' = st.y
             ELSE UNCHANGED <<doc, y>>
    /\ r' = r + 1
    /\ pc' = "rows"
    /\ UNCHANGED <<input, options, jsonData, k, total, pg, saved, outcome, geom, norm>>

\* The for..of loop ends: continue with the next key
RowsDone ==
    /\ pc = "rows"
    /\ r > Len(value.items)
    /\ k' = k + 1
    /\ pc' = "fields"
    /\ UNCHANGED <<input, options, jsonData, doc, y, r, fetches, total, pg, saved, outcome,
                   geom, norm>>

\* After the loop: addFooter(...); if (pageNumbering) totalPages = getNumberOfPages()
FieldsDone ==
    /\ pc = "fields"
    /\ k > Len(jsonData.items)
    /\ doc' = addFooter(doc, Get(jsonData, "footer"))
    /\ IF options.pageNumbering
       THEN total' = Len(doc.pages) /\ pg' = 1 /\ pc' = "numbering"
       ELSE pc' = "save" /\ UNCHANGED <<total, pg>>
    /\ UNCHANGED <<input, options, jsonData, y, k, r, fetches, saved, outcome, geom, norm>>

\* doc.setPage(i); doc.setFontSize(10); doc.text(`Page ${i} of ${totalPages}`, ...)
StampPage ==
    /\ pc = "numbering"
    /\ pg <= total
    /\ doc' = stampPage(doc, pg, total)
    /\ pg' = pg + 1
    /\ UNCHANGED <<input, options, pc, jsonData, y, k, r, fetches, total, saved, outcome,
                   geom, norm>>

NumberingDone ==
    /\ pc = "numbering"
    /\ pg > total
    /\ pc' = "save"
    /\ UNCHANGED <<input, options, jsonData, doc, y, k, r, fetches, total, pg, saved,
                   outcome, geom, norm>>

\* doc.save(outputFileName) writes the file; return outputPath
SaveOk ==
    /\ pc = "save"
    /\ saved' = Append(saved, outputFileName)
    /\ pc' = "resolved"
    /\ outcome' = [kind |-> "resolved", value |-> outputPath]
    /\ UNCHANGED <<input, options, jsonData, doc, y, k, r, fetches, total, pg, geom, norm>>

\* doc.save throws
SaveFail ==
    /\ pc = "save"
    /\ Reject("WriteError")
    /\ UNCHANGED <<input, options, jsonData, doc, y, k, r, fetches, total, pg, saved, geom, norm>>

Next ==
    \/ Start \/ FetchOk \/ FetchFail \/ Normalize \/ Create
    \/ SkipReserved \/ TextField \/ KeysOfNull \/ ImageTableField \/ TableField \/ SkipField
    \/ RowWithoutUrl \/ RowFetch \/ ImageFetched \/ RowsDone
    \/ FieldsDone \/ StampPage \/ NumberingDone \/ SaveOk \/ SaveFail

Spec == Init /\ [][Next]_vars

-----------------------------------------------------------------------------
(* The two geometry primitives on their own: willFitOnPage and ensureSpacing
   applied to the same cursor, needed height and page height *)

GeomYs == {Pt(90), Pt(100), Pt(400)}
GeomHs == {Pt(h) : h \in 0..MaxGeomH}
GeomPageHeights ==
    {PageSize(f, o).height : f \in {"a4", "letter", "legal"}, o \in {"portrait", "landscape"}}

InitGeom ==
    /\ input = [isUrl |-> FALSE, data |-> Document(Undefined, Undefined, <<>>)]
    /\ options = [format |-> "a4", orientation |-> "portrait", fontSize |-> Pt(14),
                  pageNumbering |-> TRUE]
    /\ pc = "geom"
    /\ jsonData = input.data
    /\ doc = NoDoc
    /\ y = 0
    /\ k = 0
    /\ r = 0
    /\ fetches = <<>>
    /\ total = 0
    /\ pg = 0
    /\ saved = <<>>
    /\ outcome = Pending
    /\ norm = NoNorm
    /\ \E yy \in GeomYs, h \in GeomHs, ph \in GeomPageHeights :
          geom = [NoGeom EXCEPT !.y = yy, !.h = h, !.pageHeight = ph, !.step = "input"]

ApplyWillFit ==
    /\ geom.step = "input"
    /\ geom' = [geom EXCEPT !.step = "fit",
                            !.fit = willFitOnPage(geom.y, geom.h, geom.pageHeight)]
    /\ UNCHANGED <<input, options, pc, jsonData, doc, y, k, r, fetches, total, pg, saved,
                   outcome, norm>>

ApplyEnsureSpacing ==
    /\ geom.step = "fit"
    /\ LET d == addHeader(NewDoc("a4", "portrait"), Undefined, Pt(14)).doc
           e == ensureSpacing(d, geom.y, geom.pageHeight, geom.h, Pt(14), jsonData)
       IN  geom' = [geom EXCEPT !.step = "done", !.newY = e.y,
                                !.pagesAdded = Len(e.doc.pages) - Len(d.pages)]
    /\ UNCHANGED <<input, options, pc, jsonData, doc, y, k, r, fetches, total, pg, saved,
                   outcome, norm>>

NextGeom == ApplyWillFit \/ ApplyEnsureSpacing

SpecGeom == InitGeom /\ [][NextGeom]_vars

-----------------------------------------------------------------------------
(* cleanJSON on its own: applied to a value, and again to its result *)

CleanScalars == {Null, Undefined, Num(0), Num(7), Bool(TRUE), Str(<<>>), Str(<<"a">>)}

CleanKeys == {<<>>, <<"a">>, <<"a", "b">>, <<"b", "a">>}

\* The arrays of up to two of vs, and the objects of up to two entries of vs,
\* with the keys in either insertion order
ContainersOf(vs) ==
    {Arr(es) : es \in UNION {[1..n -> vs] : n \in 0..2}}
        \cup UNION {{Obj([i \in DOMAIN ks |-> E(ks[i], es[i])]) : es \in [DOMAIN ks -> vs]} :
                       ks \in CleanKeys}

\* A container in an array, in an array after a scalar, in an object, and
\* two levels down
Nested(c) ==
    {Arr(<<c>>), Arr(<<Num(7), c>>), Obj(<<E("b", c)>>), Obj(<<E("b", Arr(<<c>>)), E("a", Null)>>)}

CleanValues ==
    CleanScalars \cup ContainersOf(CleanScalars)
        \cup UNION {Nested(c) : c \in ContainersOf({Null, Num(7), Str(<<"a">>)})}

InitClean ==
    /\ input = [isUrl |-> FALSE, data |-> Document(Undefined, Undefined, <<>>)]
    /\ options = [format |-> "a4", orientation |-> "portrait", fontSize |-> Pt(14),
                  pageNumbering |-> TRUE]
    /\ pc = "norm"
    /\ jsonData = input.data
    /\ doc = NoDoc
    /\ y = 0
    /\ k = 0
    /\ r = 0
    /\ fetches = <<>>
    /\ total = 0
    /\ pg = 0
    /\ saved = <<>>
    /\ outcome = Pending
    /\ geom = NoGeom
    /\ \E v \in CleanValues : norm = [NoNorm EXCEPT !.v = v, !.step = "input"]

\* once = cleanJSON(v)
ApplyClean ==
    /\ norm.step = "input"
    /\ norm' = [norm EXCEPT !.step = "once", !.once = cleanJSON(norm.v, <<>>, 1)]
    /\ UNCHANGED <<input, options, pc, jsonData, doc, y, k, r, fetches, total, pg, saved,
                   outcome, geom>>

\* twice = cleanJSON(once)
ApplyCleanAgain ==
    /\ norm.step = "once"
    /\ norm' = [norm EXCEPT !.step = "twice", !.twice = cleanJSON(norm.once, <<>>, 1)]
    /\ UNCHANGED <<input, options, pc, jsonData, doc, y, k, r, fetches, total, pg, saved,
                   outcome, geom>>

NextClean == ApplyClean \/ ApplyCleanAgain

SpecClean == InitClean /\ [][NextClean]_vars

-----------------------------------------------------------------------------
(* Properties *)

Limit == pageHeight - Pt(100)

IsImage(w) == w.kind = "image"
IsOk(f) == f.ok

(* C1: every content write - a text label, a wrapped line, the start of a
   table, the top of an image - is on a page of the document at a y that is
   not beyond pageHeight - 100. *)
C1_NoWriteBeyondMargin ==
    \A i \in DOMAIN doc.log :
        /\ doc.log[i].page \in 1..Len(doc.pages)
        /\ doc.log[i].y <= Limit

\* A wrapped line written at the top of page 2, right after a page break
C1_Witness ==
    \E i \in DOMAIN doc.log :
        /\ doc.log[i].kind = "line"
        /\ doc.log[i].page = 2
        /\ doc.log[i].y = Pt(100)
        /\ doc.log[i - 1].page = 1

(* C2: in the finished artifact every page carries the header, and every
   page carries the footer iff the document declares a footer. *)
C2_FurnitureOnEveryPage ==
    pc = "resolved" =>
        \A p \in DOMAIN doc.pages :
            /\ doc.pages[p].header # <<>>
            /\ doc.pages[p].footer # <<>> <=> Truthy(Get(jsonData, "footer"))

(* C3: a step that draws a table starts it at the cursor on the current page,
   adding no page, when rowCount * 25 + 50 fits below the cursor; otherwise
   it starts the table at the top-of-content offset of a new page that
   carries the furniture. *)
C3_TablePreflight ==
    [][(/\ pc = "fields"
        /\ Len(doc'.log) = Len(doc.log) + 1
        /\ doc'.log[Len(doc'.log)].kind = "table")
       => LET e == doc'.log[Len(doc'.log)]
              fits == y + Len(value.items) * Pt(25) + Pt(50) < pageHeight - Pt(100)
          IN  IF fits
              THEN e.page = Len(doc.pages) /\ e.page = doc.cur /\ e.y = y
              ELSE /\ e.page = Len(doc.pages) + 1
                   /\ e.y = Pt(100)
                   /\ doc'.pages[e.page].header # <<>>
                   /\ doc'.pages[e.page].footer # <<>> <=> Truthy(Get(jsonData, "footer"))
      ]_vars

\* A table moved to page 2 by the pre-flight check, after content on page 1
C3_Witness ==
    \E i \in DOMAIN doc.log :
        /\ doc.log[i].kind = "table"
        /\ doc.log[i].page = 2
        /\ doc.log[i].y = Pt(100)
        /\ i > 1
        /\ doc.log[i - 1].page = 1

(* C4: the numbering pass starts only after the last field and the final
   footer call, the page count does not change during it, and once it is
   over every page i holds exactly one stamp, "Page i of N", N the number of
   pages of the document. *)
C4_PageNumbering ==
    /\ pc \in {"start", "fetch", "clean", "create", "fields", "rows", "imgfetch"} =>
          \A p \in DOMAIN doc.pages : doc.pages[p].stamps = <<>>
    /\ pc = "numbering" =>
          /\ k > Len(jsonData.items)
          /\ total = Len(doc.pages)
          /\ Truthy(Get(jsonData, "footer")) => doc.pages[Len(doc.pages)].footer # <<>>
    /\ (options.pageNumbering /\ pc \in {"save", "resolved"}) =>
          \A p \in DOMAIN doc.pages :
              doc.pages[p].stamps = <<[i |-> p, of |-> Len(doc.pages)]>>

\* A numbered document of three pages or more
C4_Witness ==
    /\ pc = "resolved"
    /\ options.pageNumbering
    /\ Len(doc.pages) >= 3

(* C5: every image drawn ends (top plus drawn height) not beyond
   pageHeight - 100 on its page, whatever its height. *)
C5_ImageAboveMargin ==
    \A i \in DOMAIN doc.log :
        doc.log[i].kind = "image" => doc.log[i].y + doc.log[i].h <= Limit

(* C6: ensureSpacing adds a page exactly when willFitOnPage is false for the
   same cursor and height, and then returns the top-of-content offset;
   otherwise it adds no page and returns y + h. *)
C6_PrimitivesAgree ==
    geom.step = "done" =>
        /\ geom.fit <=> geom.y + geom.h < geom.pageHeight - Pt(100)
        /\ geom.pagesAdded = 1 <=> ~geom.fit
        /\ geom.fit => geom.pagesAdded = 0 /\ geom.newY = geom.y + geom.h

(* C7: the images drawn are those of the rows whose fetch succeeded, in row
   order, and once a fetch was made the only thing that still rejects the
   call is the final write, after every field was processed. *)
C7_FetchFailureTolerated ==
    /\ LET drawn == SelectSeq(doc.log, IsImage)
           ok == SelectSeq(fetches, IsOk)
       IN  [i \in DOMAIN drawn |-> <<drawn[i].key, drawn[i].row>>]
               = [i \in DOMAIN ok |-> <<ok[i].key, ok[i].row>>]
    /\ (pc = "rejected" /\ fetches # <<>>) =>
          outcome.value = "WriteError" /\ k > Len(jsonData.items)

\* A call that resolved although a fetch failed, with an image drawn for a
\* later row
C7_Witness ==
    /\ pc = "resolved"
    /\ \E i, j \in DOMAIN fetches : i < j /\ ~fetches[i].ok /\ fetches[j].ok
    /\ \E i \in DOMAIN doc.log : doc.log[i].kind = "image"

(* C8: the call resolves, with the path, only after every field, the
   numbering pass and the save are done; a failed document fetch or write
   rejects with that error and no path, and after a failed document fetch no
   page exists and nothing was saved. *)
C8_PathOnlyOnSuccess ==
    /\ outcome.kind = "resolved" =>
          /\ pc = "resolved"
          /\ outcome.value = outputPath
          /\ saved = <<outputFileName>>
          /\ k > Len(jsonData.items)
          /\ options.pageNumbering => pg > total
    /\ outcome.kind = "rejected" => pc = "rejected" /\ outcome.value # outputPath
    /\ outcome.kind # "resolved" => saved = <<>>
    /\ (outcome.kind = "rejected" /\ outcome.value = "FetchError") =>
          doc.pages = <<>> /\ doc.log = <<>>

\* A call rejected by the document fetch
C8_Witness ==
    /\ input.isUrl
    /\ outcome = [kind |-> "rejected", value |-> "FetchError"]

(* C9: on a cyclic input the call is rejected with a SerializationError
   before any page exists. *)
C9_CycleIsSerializationError ==
    (HasCycle(input.data) /\ pc \notin {"start", "fetch", "clean"}) =>
        /\ outcome = [kind |-> "rejected", value |-> "SerializationError"]
        /\ doc.pages = <<>>

\* The four-way classification of a field value
Kind(v) ==
    CASE v.t = "string" -> "text"
      [] v.t = "array" /\ v.items # <<>> /\ v.items[1].v.t = "object"
            /\ Includes(Keys(v.items[1].v), "url") -> "imageTable"
      [] v.t = "array" /\ v.items # <<>> /\ v.items[1].v.t = "object"
            /\ ~Includes(Keys(v.items[1].v), "url") -> "table"
      [] OTHER -> "skip"

(* C10: what is drawn for a field is what its classification says - labels
   and lines for text, a table for table, images for imageTable, nothing for
   skip - and no field raises an error. *)
C10_RenderingMatchesKind ==
    /\ \A i \in DOMAIN doc.log :
          Kind(Get(jsonData, doc.log[i].key)) =
              CASE doc.log[i].kind \in {"label", "line"} -> "text"
                [] doc.log[i].kind = "table" -> "table"
                [] doc.log[i].kind = "image" -> "imageTable"
    /\ ~(pc = "rejected" /\ outcome.value = "TypeError")

\* The document {header: {text: "T"}, footer: {text: "F"}, Summary: "short text"}
SimpleDocument ==
    Document(Obj(<<E("text", Str(<<"T">>))>>), Obj(<<E("text", Str(<<"F">>))>>),
             <<Str(<<"short text">>)>>)

\* The defaults of the destructuring in generatePDF, but for pageNumbering
DefaultLayout ==
    options.format = "a4" /\ options.orientation = "portrait" /\ options.fontSize = Pt(14)

(* C11: for the document {header: {text: "T"}, footer: {text: "F"},
   Summary: "short text"} with the default format, orientation and font size,
   the resolved call leaves exactly one page, with the header "T" once and the
   footer "F" once, whose content is the label "SUMMARY:" and below it the
   line "short text", and with page numbering on the one stamp "Page 1 of 1". *)
C11_SimpleInput ==
    (input.data = SimpleDocument /\ DefaultLayout /\ pc = "resolved") =>
        /\ Len(doc.pages) = 1
        /\ doc.pages[1].header = << <<"T">> >>
        /\ doc.pages[1].footer = << <<"F">> >>
        /\ Len(doc.log) = 2
        /\ doc.log[1].kind = "label" /\ doc.log[1].text = <<"SUMMARY", ":">>
        /\ doc.log[2].kind = "line" /\ doc.log[2].text = <<"short text">>
        /\ doc.log[1].page = 1 /\ doc.log[2].page = 1
        /\ doc.log[1].y < doc.log[2].y
        /\ doc.log[2].y <= Limit
        /\ doc.pages[1].stamps =
              IF options.pageNumbering THEN <<[i |-> 1, of |-> 1]>> ELSE <<>>

\* The simple document, rendered with the default options
C11_Witness ==
    /\ input.data = SimpleDocument
    /\ DefaultLayout
    /\ options.pageNumbering
    /\ pc = "resolved"
    /\ doc.log # <<>>

\* The page on which the content write before write i ended
PrevEndPage(i) == IF i = 1 THEN 1 ELSE doc.log[i - 1].endPage

\* The value addHeader returns, at which the cursor starts on the first page
HeaderOffset == addHeader(NewDoc("a4", "portrait"), Undefined, Pt(14)).ret

(* C12: a content write that is the first after a page break taken by
   ensureSpacing, the table pre-flight or the image renderer's secondary check
   is at the cursor the break left, and that cursor is the value addHeader
   returns, the y at which the cursor starts on the first page. *)
C12_BreakResetsToHeaderOffset ==
    \A i \in DOMAIN doc.log :
        doc.log[i].page > PrevEndPage(i) => doc.log[i].y = HeaderOffset

\* The position of a key in the for..in order of jsonData
KeyIndex(name) == CHOOSE i \in DOMAIN jsonData.items : jsonData.items[i].k = name

\* (page, y) of write i is lexicographically not before the end of write i - 1
NotBeforePrevious(i) ==
    \/ doc.log[i].page > doc.log[i - 1].endPage
    \/ doc.log[i].page = doc.log[i - 1].endPage /\ doc.log[i].y >= doc.log[i - 1].endY

(* C13: the content writes follow the document: their fields are in for..in
   order and none is of a field the loop has not reached, within a field the
   lines and the image rows are in order, each write lands at a (page, y)
   that is lexicographically not before the end of the write before it, and
   the step that leaves a fetch outstanding changes neither the document nor
   the cursor. *)
C13_SequentialLayout ==
    /\ [](\A i \in DOMAIN doc.log :
            /\ KeyIndex(doc.log[i].key) <= k
            /\ i > 1 =>
                  /\ KeyIndex(doc.log[i - 1].key) <= KeyIndex(doc.log[i].key)
                  /\ doc.log[i - 1].key = doc.log[i].key => doc.log[i - 1].row < doc.log[i].row
                  /\ NotBeforePrevious(i))
    /\ [][pc' = "imgfetch" => doc' = doc /\ y' = y /\ k' = k /\ r' = r]_vars

\* An image drawn on a later page than the text line before it
C13_Witness ==
    \E i \in DOMAIN doc.log :
        /\ i > 1
        /\ doc.log[i].kind = "image"
        /\ doc.log[i - 1].kind = "line"
        /\ doc.log[i].page > doc.log[i - 1].page
        /\ fetches # <<>>

\* The step that settles a fetch and draws the image of the row
DrawsImage == pc = "imgfetch" /\ Len(doc'.log) = Len(doc.log) + 1

\* The height the image of the current row is drawn with: row.height || 100
DrawnHeight == OrElse(Get(row, "height"), Pt(100))

(* C14: a step that draws the image of a row draws it with the row's height,
   or 100 when the row gives none; the space asked of ensureSpacing is that
   same height, so that without a page break the image's top is the cursor
   plus that height; and the cursor after the row is the image's top plus
   that height plus 20. *)
C14_ReservedIsDrawnHeight ==
    [][DrawsImage =>
         LET e == doc'.log[Len(doc'.log)]
         IN  /\ e.h = DrawnHeight
             /\ Len(doc'.pages) = Len(doc.pages) => e.y = y + DrawnHeight
             /\ y' = e.y + DrawnHeight + Pt(20)
      ]_vars

(* C15: for an acyclic value of arrays, objects and scalars cleanJSON returns
   a value equal to it - the same scalars, the same array order, the same
   keys in the same order - the value it was given stays as it was, and
   cleanJSON of the result is the result. *)
C15_CleanIsEqualAndIdempotent ==
    /\ [](norm.step \in {"once", "twice"} => norm.once = norm.v)
    /\ [](norm.step = "twice" => norm.twice = norm.once)
    /\ [][norm'.v = norm.v]_vars

\* An object with its keys in the order "b", "a" that holds a container,
\* normalized twice
C15_Witness ==
    /\ norm.step = "twice"
    /\ norm.v.t = "object"
    /\ Keys(norm.v) = <<"b", "a">>
    /\ \E i \in DOMAIN norm.v.items : norm.v.items[i].v.t \in {"array", "object"}

(* C16: the step that settles the fetch of one image row and places its
   image adds at most one page to the document, whatever the row's height and
   the cursor. *)
C16_OnePagePerImageRow ==
    [][pc = "imgfetch" => Len(doc'.pages) <= Len(doc.pages) + 1]_vars

(* C17: every wrapped body line of a text field is drawn with the canvas
   font size equal to the fontSize option, the lines drawn after a page break
   inside the text block and those of a document that declares a footer
   included. *)
C17_LinesAtConfiguredFontSize ==
    \A i \in DOMAIN doc.log :
        doc.log[i].kind = "line" => doc.log[i].fontSize = options.fontSize

\* The step that settles a fetch that failed
FetchFailed == pc = "imgfetch" /\ ~fetches'[Len(fetches')].ok

\* The step that passes over a row whose url is falsy
RowPassedOver == pc = "rows" /\ pc' = "rows" /\ r' = r + 1

(* C18: a row that is skipped, because its fetch failed or because it has no
   url, leaves the layout as it was: the cursor, the pages and their
   furniture, the content and the canvas font size after the row are those
   before it. *)
C18_SkippedRowChangesNothing ==
    [][(FetchFailed \/ RowPassedOver \/ (pc = "rows" /\ pc' = "imgfetch"))
         => (doc' = doc /\ y' = y /\ r' \in {r, r + 1} /\ k' = k)]_vars

\* A row whose fetch failed, after a row of the same field whose image was
\* drawn
C18_Witness ==
    /\ pc = "rows"
    /\ Len(fetches) >= 2
    /\ ~fetches[Len(fetches)].ok
    /\ fetches[Len(fetches) - 1].ok
    /\ doc.log # <<>>
    /\ doc.log[Len(doc.log)].kind = "image"
    /\ y = doc.log[Len(doc.log)].y + doc.log[Len(doc.log)].h + Pt(20)

====
